---- MODULE Spec2Model ----
(***************************************************************************)
(* A model of whatsupgithub (src/src/whatsupgithub/__main__.py): the       *)
(* command line entry point main, the metrics table builder                *)
(* repo_info_to_table, the event extractor                                 *)
(* get_all_commit_issue_comments_info, the presence check has_file and     *)
(* the contributor classification get_all_contributors.                    *)
(*                                                                         *)
(* The hosting platform is the environment: a repository handle is a       *)
(* record of what each remote read answers.  Every statement of the code   *)
(* that talks to the platform is one step of the model.                    *)
(***************************************************************************)
EXTENDS Integers, Sequences, FiniteSets, TLC

\* ------------------------------------------------------------------------
\* Bounds of the explored inputs.
MaxRepos == 2       \* repositories an enumerated organisation holds
MaxCommits == 2     \* commits of a repository handed to the extractor
MaxIssues == 2      \* issues of a repository
MaxComments == 1    \* comments of an issue
MaxDay == 2         \* timestamps are whole day numbers 1..MaxDay

Days == 1..MaxDay
\* datetime.today() at the moment of collection, as a day number.
Today == MaxDay + 1

\* ------------------------------------------------------------------------
\* Python values.
None == "None"
NA == "N/A"

\* Table cells are tagged with their Python type: a row mixes str, bool, int
\* and list values.
StrCell(s) == [t |-> "str", v |-> s]
BoolCell(b) == [t |-> "bool", v |-> b]
IntCell(n) == [t |-> "int", v |-> n]
ListCell(l) == [t |-> "list", v |-> l]
NoneCell == [t |-> "none", v |-> None]

\* The outcome of an expression: a value, or a raised exception.
Ok(v) == [ok |-> TRUE, val |-> v, exc |-> "none"]
Raise(e) == [ok |-> FALSE, val |-> None, exc |-> e]

\* Python truthiness of an argparse value: the default is the bool False, a
\* value given on the command line is a str (no type= is declared), which is
\* falsy only when empty.
DefaultFalse == "<False>"
Truthy(v) == v \notin {DefaultFalse, ""}

\* ------------------------------------------------------------------------
\* The platform: repository handles.

\* What repo.get_contents(filename) can answer.
ContentOutcomes == {"ok", "404", "403", "500"}
\* The remote enumeration of the handle that raises, if any.
FailPoints == {"none", "get_pulls", "get_commits", "get_contributors", "get_issues"}

\* The Last-Modified header of an object: an RFC 1123 date, or no header.
Stamp(d) == <<"rfc1123", d>>
NoStamp == <<"absent">>

Commit(author, lm) == [author |-> author, last_modified |-> lm]
Comment(user, created) == [user |-> user, created_at |-> created]
Issue(user, created, updated, comments) ==
    [user |-> user, created_at |-> created, updated_at |-> updated,
     comments |-> comments]

Repo(name, private, lic, rdm, oic, pulls, contributors, commits, issues, fail) ==
    [name |-> name, private |-> private,
     description |-> "about " \o name,
     url |-> "https://api.github.com/repos/org/" \o name,
     contents |-> ("LICENSE" :> lic @@ "README.md" :> rdm),
     open_issues_count |-> oic,
     pulls |-> pulls,
     contributors |-> contributors,
     commits |-> commits,
     issues |-> issues,
     fail |-> fail]

\* Sequences over S of length at most n.
SeqUpTo(S, n) == UNION {[1..m -> S] : m \in 0..n}
\* Sequences over S without repetition, of length 1..n.
DistinctSeqs(S, n) ==
    {s \in UNION {[1..m -> S] : m \in 1..n} :
        \A a, b \in DOMAIN s : a # b => s[a] # s[b]}

\* An organisation's repositories: the two of the specification's end to end
\* scenario (R1, R2) and four more covering a private repository, a failing
\* enumeration, an empty repository and failing content fetches.
OneIssue(u, d) == Issue(u, d, d, <<>>)
R1 == Repo("R1", FALSE, "ok", "404", 3, <<>>, <<"alice", "bob">>,
           <<Commit("alice", Stamp(2)), Commit("None", Stamp(1)),
             Commit("bob", Stamp(1))>>,
           <<OneIssue("bob", 1), Issue("carol", 1, 2, <<Comment("bob", 2)>>),
             OneIssue("bob", 1)>>, "none")
R2 == Repo("R2", FALSE, "404", "ok", 0, <<1>>, <<"alice">>,
           <<Commit("alice", Stamp(1))>>, <<>>, "none")
R3 == Repo("R3", TRUE, "ok", "ok", 1, <<>>, <<"bob">>,
           <<Commit("bob", Stamp(2))>>, <<OneIssue("carol", 2)>>, "none")
R4 == Repo("R4", FALSE, "ok", "ok", 0, <<>>, <<"alice">>,
           <<Commit("alice", Stamp(1))>>, <<>>, "get_pulls")
R5 == Repo("R5", TRUE, "404", "404", 0, <<>>, <<>>, <<>>, <<>>, "none")
R6 == Repo("R6", FALSE, "500", "403", 1, <<1>>, <<"alice">>,
           <<Commit("alice", NoStamp)>>, <<OneIssue("alice", 1)>>, "none")
OrgRepos == {R1, R2, R3, R4, R5, R6}

\* Every shape of a single repository the table builder can meet.
TableCommitLists ==
    {<<>>, <<Commit("alice", Stamp(MaxDay))>>,
     <<Commit("bob", Stamp(1)), Commit("alice", Stamp(MaxDay))>>}
RepoShapes ==
    {Repo("R0", FALSE, lic, rdm, Len(upd), <<>>, <<"alice">>, cs,
          [i \in DOMAIN upd |-> OneIssue("bob", upd[i])], f) :
        lic \in ContentOutcomes, rdm \in ContentOutcomes,
        upd \in SeqUpTo(Days, MaxIssues), cs \in TableCommitLists,
        f \in FailPoints}

\* Every shape of a repository the extractor can meet: each commit's author
\* is a user or cannot be resolved (None), each issue has an author and some
\* comments.  Timestamps tell the events apart: commits are listed newest
\* first and are all newer than the issues.
CommitAuthors == {None, "alice", "bob"}
IssueUsers == {"bob", "carol"}
CommitList(authors) ==
    [i \in DOMAIN authors |-> Commit(authors[i], Stamp(50 - i))]
CommentList(user, i, n) ==
    [c \in 1..n |-> Comment(IF c % 2 = 1 THEN "dave" ELSE user, 10 * i + c)]
IssueList(shapes) ==
    [i \in DOMAIN shapes |->
        Issue(shapes[i][1], 10 * i, 10 * i,
              CommentList(shapes[i][1], i, shapes[i][2]))]
ExtractRepos ==
    {Repo("R1", FALSE, "ok", "ok", Len(is), <<>>, <<"alice">>, CommitList(as),
          IssueList(is), "none") :
        as \in SeqUpTo(CommitAuthors, MaxCommits),
        is \in SeqUpTo(IssueUsers \X (0..MaxComments), MaxIssues)}

\* ------------------------------------------------------------------------
\* The command line (parse_args) and the inputs of a run.
OutFolders == {"./", "out"}
PrivateValues == {DefaultFalse, "True", "False", ""}
AllValues == {DefaultFalse, "True"}

DefaultArgs ==
    [org |-> "alan-turing-institute", private |-> DefaultFalse, repo |-> None,
     all |-> DefaultFalse, out_folder |-> "./"]

AllArgs ==
    [org : {"alan-turing-institute"}, private : PrivateValues,
     repo : {None, "org/R1"}, all : AllValues, out_folder : OutFolders]

\* The csv files main can write into out_folder.
CsvOf(name) == name \o ".csv"

\* ------------------------------------------------------------------------
\* Remote reads of a repository handle.
get_contents(repo, filename) == repo.contents[filename]

\* get_pulls with the failure swallowed (get_pulls as a mutant).
get_pulls_or_empty(repo) == Ok(repo.pulls)

get_pulls(repo) ==
    IF repo.fail = "get_pulls" THEN Raise("GithubException") ELSE Ok(repo.pulls)

get_commits(repo) ==
    IF repo.fail = "get_commits" THEN Raise("GithubException") ELSE Ok(repo.commits)

get_contributors(repo) ==
    IF repo.fail = "get_contributors" THEN Raise("GithubException")
    ELSE Ok(repo.contributors)

get_issues(repo) ==
    IF repo.fail = "get_issues" THEN Raise("GithubException") ELSE Ok(repo.issues)

\* Organization.get_repos: without a type the platform lists every repository
\* of the organisation, with type="private" the private ones only.
get_repos(o, type) ==
    LET Listed(r) == type = "all" \/ (type = "private" /\ r.private)
    IN SelectSeq(o, Listed)

\* ------------------------------------------------------------------------
\* has_file catching only the not-found answer (has_file as a mutant).
has_file_not_found_only(repo, filename) ==
    LET r == get_contents(repo, filename)
    IN [ret |-> (r = "ok"),
        exc |-> IF r \in {"ok", "404"} THEN "none" ELSE "GithubException",
        fetches |-> <<filename>>]

\* has_file: one fetch; any exception of the fetch is caught.
has_file(repo, filename) ==
    LET r == get_contents(repo, filename)
    IN [ret |-> (r = "ok"), exc |-> "none", fetches |-> <<filename>>]

\* github_to_timestamp: strptime of the Last-Modified header.
github_to_timestamp(s) ==
    IF s.last_modified[1] = "rfc1123" THEN Ok(s.last_modified[2])
    ELSE Raise("TypeError")

\* list.append
ListAppend(l, x) == Append(l, x)

\* rows.insert(0, row) (CollectRow as a mutant).
CollectRowFirst(rs, r) == <<r>> \o rs

\* Line 167: rows.append(row)
CollectRow(rs, r) == ListAppend(rs, r)

RECURSIVE SeqMax(_)
SeqMax(s) ==
    IF Len(s) = 1 THEN s[1]
    ELSE LET m == SeqMax(Tail(s)) IN IF s[1] >= m THEN s[1] ELSE m

\* Lines 158-163 without the except clause (days_since_last_issue as a
\* mutant).
days_since_last_issue_uncaught(repo) ==
    LET r == get_issues(repo)
    IN IF ~r.ok THEN r
       ELSE IF r.val = <<>> THEN Raise("ValueError")
       ELSE Ok(IntCell(Today - SeqMax([i \in DOMAIN r.val |-> r.val[i].updated_at])))

\* Lines 158-163: the days since the last issue update; max() of no issues
\* raises ValueError, which is caught and recorded as "N/A".
days_since_last_issue(repo) ==
    LET r == get_issues(repo)
    IN IF ~r.ok THEN r
       ELSE IF r.val = <<>> THEN Ok(StrCell(NA))
       ELSE Ok(IntCell(Today - SeqMax([i \in DOMAIN r.val |-> r.val[i].updated_at])))

\* Lines 165-166: the days since the first commit the platform lists.
days_since_last_commit(repo) ==
    LET r == get_commits(repo)
    IN IF ~r.ok THEN r
       ELSE IF r.val = <<>> THEN Raise("IndexError")
       ELSE LET c == github_to_timestamp(r.val[1])
            IN IF ~c.ok THEN c ELSE Ok(IntCell(Today - c.val))

\* pandas.DataFrame(rows, columns=...): the widest row must have as many
\* cells as there are columns; shorter rows are padded.
TableColumns ==
    <<"name", "description", "url", "license", "readme", "issues", "pulls",
      "commits", "contributors", "days_since_last_issue",
      "days_since_last_commit">>
EventColumns == <<"user", "timestamp", "type">>

NoFrame == [made |-> FALSE, columns |-> <<>>, rows |-> <<>>]
PadRows(rs, columns) ==
    [i \in DOMAIN rs |->
        [c \in DOMAIN columns |-> IF c <= Len(rs[i]) THEN rs[i][c] ELSE NoneCell]]
Ragged(rs, columns) ==
    \/ \E i \in DOMAIN rs : Len(rs[i]) > Len(columns)
    \/ rs # <<>> /\ \A i \in DOMAIN rs : Len(rs[i]) < Len(columns)

\* A frame of events sorted by their timestamp (DataFrame as a mutant).
RECURSIVE SortByTimestamp(_)
SortByTimestamp(rs) ==
    IF rs = <<>> THEN <<>>
    ELSE LET rest == SortByTimestamp(Tail(rs))
             before == SelectSeq(rest, LAMBDA r : r[2].v < rs[1][2].v)
             after == SelectSeq(rest, LAMBDA r : r[2].v >= rs[1][2].v)
         IN before \o <<rs[1]>> \o after
DataFrameSorted(rs, columns) ==
    IF Ragged(rs, columns) THEN Raise("ValueError")
    ELSE Ok([made |-> TRUE, columns |-> columns,
             rows |-> IF Len(columns) = 3 THEN SortByTimestamp(PadRows(rs, columns))
                      ELSE PadRows(rs, columns)])

DataFrame(rs, columns) ==
    IF Ragged(rs, columns) THEN Raise("ValueError")
    ELSE Ok([made |-> TRUE, columns |-> columns, rows |-> PadRows(rs, columns)])

\* Lines 101-108 with an unresolved author recorded under the login None
\* (try_commit as a mutant).
try_commit_any_author(commit) ==
    LET ts == github_to_timestamp(commit)
    IN IF ~ts.ok THEN [exc |-> ts.exc, row |-> <<StrCell(commit.author)>>]
       ELSE [exc |-> "none",
             row |-> <<StrCell(commit.author), IntCell(ts.val), StrCell("commit")>>]

\* Lines 101-108: the body of the try block for one commit: the exception it
\* ends with, and the local row at that moment.
try_commit(commit) ==
    IF commit.author = None THEN [exc |-> "AttributeError", row |-> <<>>]
    ELSE LET ts == github_to_timestamp(commit)
         IN IF ~ts.ok THEN [exc |-> ts.exc, row |-> <<StrCell(commit.author)>>]
            ELSE [exc |-> "none",
                  row |-> <<StrCell(commit.author), IntCell(ts.val),
                            StrCell("commit")>>]

\* ------------------------------------------------------------------------
\* get_all_contributors, lines 65-83: a mapping from login to the list of
\* the channels the user was seen in.
Range(f) == {f[x] : x \in DOMAIN f}

\* Lines 72-76 and 78-82 with the tag appended unconditionally (AddChannel
\* as a mutant).
AddChannelAlways(contributors, login, channel) ==
    IF login \notin DOMAIN contributors
    THEN contributors @@ (login :> <<channel>>)
    ELSE [contributors EXCEPT ![login] = Append(@, channel)]

\* Lines 72-76 and 78-82.
AddChannel(contributors, login, channel) ==
    IF login \notin DOMAIN contributors
    THEN contributors @@ (login :> <<channel>>)
    ELSE IF channel \notin Range(contributors[login])
         THEN [contributors EXCEPT ![login] = Append(@, channel)]
         ELSE contributors

\* Lines 77-82: the comments of one issue.
RECURSIVE WalkComments(_, _)
WalkComments(contributors, comments) ==
    IF comments = <<>> THEN contributors
    ELSE WalkComments(AddChannel(contributors, comments[1].user, "comments"),
                      Tail(comments))

\* Lines 71-82: the issues.
RECURSIVE WalkIssues(_, _)
WalkIssues(contributors, issues) ==
    IF issues = <<>> THEN contributors
    ELSE WalkIssues(WalkComments(AddChannel(contributors, issues[1].user, "issues"),
                                 issues[1].comments),
                    Tail(issues))

get_all_contributors(repo, inc_non_code) ==
    LET code == [login \in Range(repo.contributors) |-> <<"code">>]
    IN IF inc_non_code THEN WalkIssues(code, repo.issues) ELSE code

\* Every shape of a repository get_all_contributors can meet.
CodeContributors == {"alice", "bob"}
ContribRepos ==
    {Repo("R1", FALSE, "ok", "ok", Len(is), <<>>, cs, <<>>, is, "none") :
        cs \in {<<>>} \cup DistinctSeqs(CodeContributors, 2),
        is \in SeqUpTo({Issue(u, 1, 1, [x \in DOMAIN c |-> Comment(c[x], 1)]) :
                           u \in IssueUsers, c \in SeqUpTo(IssueUsers, MaxComments)},
                       MaxIssues)}

\* pathlib.Path has neither attribute: looking either up raises
\* AttributeError before anything is called.
PathMakedirs(folder) == Raise("AttributeError")
PathIsFile(files, file) == Raise("AttributeError")
\* contextlib.suppress(OSError)
SuppressOSError(r) == IF r.exc = "OSError" THEN Ok(None) ELSE r

\* ------------------------------------------------------------------------
\* The state of a run of main.
VARIABLES
    args,       \* the parsed command line
    org,        \* the organisation's repositories, in the platform's order
    target,     \* the handle g.get_repo(args.repo) resolves to
    dirs,       \* the directories that exist
    fs,         \* the files that exist in out_folder
    pc,         \* the statement main is at
    err,        \* the exception that ended main, or "none"
    repos,      \* main's repos
    idx,        \* the repository the current loop is at (1-based, 0: none yet)
    row,        \* the local row
    rows,       \* the local rows
    tbl,        \* the frame the called function returned
    k,          \* the commit or issue the extractor is at
    j,          \* the comment the extractor is at
    fetchLog,   \* the get_contents calls made: <<idx, filename>>
    apiLog,     \* the enumeration calls made on the client g
    extracted,  \* the names of the repositories handed to the extractor
    disk0,      \* the directories and files that existed when main started
    call        \* a call of get_all_contributors: its arguments and result

inputs == <<args, org, target, disk0, call>>
disk == <<dirs, fs>>
locals == <<repos, idx, row, rows, tbl, k, j>>
logs == <<fetchLog, apiLog, extracted>>
vars == <<args, org, target, dirs, fs, pc, err, repos, idx, row, rows, tbl, k,
          j, fetchLog, apiLog, extracted, disk0, call>>

Cur == repos[idx]
RepoMode == args.repo # None

\* An uncaught exception ends main.
Crash(e) == pc' = "crashed" /\ err' = e
Goto(l) == pc' = l /\ err' = err

\* The inputs of a run.
OrgLists == DistinctSeqs(OrgRepos, MaxRepos)

InitInputs ==
    \* any command line, over the scenario organisation
    \/ /\ args \in AllArgs
       /\ org = <<R1, R2>>
       /\ target = R1
       /\ dirs \in {{"./"}, {"./", "out"}}
       /\ fs \in SUBSET {CsvOf("R1"), CsvOf("R2")}
    \* default mode over every organisation
    \/ /\ args \in {[DefaultArgs EXCEPT !.private = p] : p \in PrivateValues}
       /\ org \in OrgLists
       /\ target = R1
       /\ dirs = {"./"}
       /\ fs = {}
    \* default mode over every shape of one repository
    \/ /\ args = DefaultArgs
       /\ org \in {<<r>> : r \in RepoShapes}
       /\ target = R1
       /\ dirs = {"./"}
       /\ fs = {}
    \* --repo over every shape of one repository, and over the failing ones
    \/ /\ args = [DefaultArgs EXCEPT !.repo = "org/R1"]
       /\ org = <<R1, R2>>
       /\ target \in ExtractRepos \cup OrgRepos
                     \cup {[R1 EXCEPT !.fail = f] : f \in FailPoints}
       /\ dirs = {"./"}
       /\ fs = {}

NoCall == [state |-> "none", repo |-> R1, inc_non_code |-> TRUE, ret |-> <<>>]

InitLocals ==
    /\ err = "none"
    /\ repos = <<>>
    /\ idx = 0
    /\ row = <<>>
    /\ rows = <<>>
    /\ tbl = NoFrame
    /\ k = 0
    /\ j = 0
    /\ fetchLog = <<>>
    /\ apiLog = <<>>
    /\ extracted = <<>>
    /\ disk0 = <<dirs, fs>>

Init ==
    /\ InitInputs
    /\ pc = "main"
    /\ call = NoCall
    /\ InitLocals

\* ------------------------------------------------------------------------
\* main, lines 192-205.

\* Lines 192-195: make out_folder unless it is the default.
MakeOutFolder ==
    /\ pc = "main"
    /\ IF args.out_folder # "./"
       THEN LET r == SuppressOSError(PathMakedirs(args.out_folder))
            IN IF r.ok THEN Goto("branch") ELSE Crash(r.exc)
       ELSE Goto("branch")
    /\ UNCHANGED <<inputs, disk, locals, logs>>

\* Lines 197-198: --repo names one repository.
GetRepo ==
    /\ pc = "branch"
    /\ RepoMode
    /\ repos' = <<target>>
    /\ idx' = 1
    /\ apiLog' = Append(apiLog, <<"get_repo", args.repo>>)
    /\ Goto("ext_begin")
    /\ UNCHANGED <<inputs, disk, row, rows, tbl, k, j, fetchLog, extracted>>

\* Lines 201-207: enumerate the organisation.
EnumerateOrg ==
    /\ pc = "branch"
    /\ ~RepoMode
    /\ LET type == IF ~Truthy(args.private) THEN "all" ELSE "private"
       IN /\ repos' = get_repos(org, type)
          /\ apiLog' = Append(apiLog, <<"get_repos", type>>)
    /\ idx' = 0
    /\ Goto(IF Truthy(args.all) THEN "all_loop" ELSE "tbl_begin")
    /\ UNCHANGED <<inputs, disk, row, rows, tbl, k, j, fetchLog, extracted>>

\* ------------------------------------------------------------------------
\* repo_info_to_table, lines 143-183.

TableBegin ==
    /\ pc = "tbl_begin"
    /\ rows' = <<>>
    /\ idx' = 0
    /\ Goto("tbl_loop")
    /\ UNCHANGED <<inputs, disk, repos, row, tbl, k, j, logs>>

\* Lines 145-146: the next repository, with a fresh row.
TableNextRepo ==
    /\ pc = "tbl_loop"
    /\ idx < Len(repos)
    /\ idx' = idx + 1
    /\ row' = <<>>
    /\ Goto("tbl_attrs")
    /\ UNCHANGED <<inputs, disk, repos, rows, tbl, k, j, logs>>

\* One append of a value that cannot fail.
TableAppend(at, cell, next) ==
    /\ pc = at
    /\ row' = ListAppend(row, cell)
    /\ Goto(next)
    /\ UNCHANGED <<inputs, disk, repos, idx, rows, tbl, k, j, logs>>

\* One append of the outcome of a remote read: an exception ends main.
TableAppendRead(at, r, next) ==
    /\ pc = at
    /\ IF r.ok THEN row' = ListAppend(row, r.val) /\ Goto(next)
       ELSE row' = row /\ Crash(r.exc)
    /\ UNCHANGED <<inputs, disk, repos, idx, rows, tbl, k, j, logs>>

\* Lines 147-149.
TableAttrs ==
    /\ pc = "tbl_attrs"
    /\ row' = ListAppend(ListAppend(ListAppend(row, StrCell(Cur.name)),
                                    StrCell(Cur.description)), StrCell(Cur.url))
    /\ Goto("tbl_license")
    /\ UNCHANGED <<inputs, disk, repos, idx, rows, tbl, k, j, logs>>

\* Lines 150 and 151: a presence check.
TableHasFile(at, filename, next) ==
    /\ pc = at
    /\ LET h == has_file(Cur, filename)
       IN /\ fetchLog' = fetchLog \o [i \in DOMAIN h.fetches |-> <<idx, h.fetches[i]>>]
          /\ IF h.exc = "none"
             THEN row' = ListAppend(row, BoolCell(h.ret)) /\ Goto(next)
             ELSE row' = row /\ Crash(h.exc)
    /\ UNCHANGED <<inputs, disk, repos, idx, rows, tbl, k, j, apiLog, extracted>>

TableLicense == TableHasFile("tbl_license", "LICENSE", "tbl_readme")
TableReadme == TableHasFile("tbl_readme", "README.md", "tbl_issues")

\* Line 152.
TableIssuesCount ==
    TableAppend("tbl_issues", IntCell(Cur.open_issues_count), "tbl_pulls")

\* Line 153.
TablePulls ==
    LET r == get_pulls(Cur)
    IN TableAppendRead("tbl_pulls",
                       IF r.ok THEN Ok(IntCell(Len(r.val))) ELSE r, "tbl_commits")

\* Line 154.
TableCommitCount ==
    LET r == get_commits(Cur)
    IN TableAppendRead("tbl_commits",
                       IF r.ok THEN Ok(IntCell(Len(r.val))) ELSE r,
                       "tbl_contributors")

\* Line 155.
TableContributors ==
    LET r == get_contributors(Cur)
    IN TableAppendRead("tbl_contributors",
                       IF r.ok THEN Ok(ListCell(r.val)) ELSE r, "tbl_last_issue")

\* Lines 158-163.
TableLastIssue ==
    TableAppendRead("tbl_last_issue", days_since_last_issue(Cur),
                    "tbl_last_commit")

\* Lines 165-167: the last cell, and the row joins rows.
TableLastCommit ==
    /\ pc = "tbl_last_commit"
    /\ LET r == days_since_last_commit(Cur)
       IN IF r.ok
          THEN /\ row' = ListAppend(row, r.val)
               /\ rows' = CollectRow(rows, row')
               /\ Goto("tbl_loop")
          ELSE /\ UNCHANGED <<row, rows>>
               /\ Crash(r.exc)
    /\ UNCHANGED <<inputs, disk, repos, idx, tbl, k, j, logs>>

\* Lines 168-183: the frame is built when the loop is over.
TableReturn ==
    /\ pc = "tbl_loop"
    /\ idx = Len(repos)
    /\ LET df == DataFrame(rows, TableColumns)
       IN IF df.ok THEN tbl' = df.val /\ Goto("tbl_write")
          ELSE tbl' = tbl /\ Crash(df.exc)
    /\ UNCHANGED <<inputs, disk, repos, idx, row, rows, k, j, logs>>

\* DataFrame.to_csv into out_folder.
ToCsv(file, next) ==
    IF args.out_folder \in dirs
    THEN fs' = fs \cup {file} /\ Goto(next)
    ELSE fs' = fs /\ Crash("OSError")

\* Line 216.
WriteReposCsv ==
    /\ pc = "tbl_write"
    /\ ToCsv("repos.csv", "done")
    /\ UNCHANGED <<inputs, dirs, locals, logs>>

\* ------------------------------------------------------------------------
\* get_all_commit_issue_comments_info, lines 97-124.

\* Lines 97-100: the commits are enumerated.
ExtractBegin ==
    /\ pc = "ext_begin"
    /\ extracted' = Append(extracted, Cur.name)
    /\ rows' = <<>>
    /\ k' = 0
    /\ LET r == get_commits(Cur)
       IN IF r.ok THEN Goto("ext_commits") ELSE Crash(r.exc)
    /\ UNCHANGED <<inputs, disk, repos, idx, row, tbl, j, fetchLog, apiLog>>

\* Lines 100-108: one commit; AttributeError skips it.
ExtractCommit ==
    /\ pc = "ext_commits"
    /\ k < Len(Cur.commits)
    /\ k' = k + 1
    /\ LET r == try_commit(Cur.commits[k'])
       IN /\ row' = r.row
          /\ IF r.exc = "none" THEN rows' = ListAppend(rows, r.row) /\ Goto("ext_commits")
             ELSE IF r.exc = "AttributeError" THEN rows' = rows /\ Goto("ext_commits")
             ELSE rows' = rows /\ Crash(r.exc)
    /\ UNCHANGED <<inputs, disk, repos, idx, tbl, j, logs>>

\* Lines 109-110: the commits are over, the issues are enumerated.
ExtractCommitsDone ==
    /\ pc = "ext_commits"
    /\ k = Len(Cur.commits)
    /\ k' = 0
    /\ LET r == get_issues(Cur)
       IN IF r.ok THEN Goto("ext_issues") ELSE Crash(r.exc)
    /\ UNCHANGED <<inputs, disk, repos, idx, row, rows, tbl, j, logs>>

\* Lines 110-115: one issue.
ExtractIssue ==
    /\ pc = "ext_issues"
    /\ k < Len(Cur.issues)
    /\ k' = k + 1
    /\ LET issue == Cur.issues[k']
       IN row' = <<StrCell(issue.user), IntCell(issue.created_at), StrCell("issue")>>
    /\ rows' = ListAppend(rows, row')
    /\ j' = 0
    /\ Goto("ext_comments")
    /\ UNCHANGED <<inputs, disk, repos, idx, tbl, logs>>

\* Lines 117-122: one comment of the issue.
ExtractComment ==
    /\ pc = "ext_comments"
    /\ j < Len(Cur.issues[k].comments)
    /\ j' = j + 1
    /\ LET comment == Cur.issues[k].comments[j']
       IN row' = <<StrCell(comment.user), IntCell(comment.created_at),
                   StrCell("comment")>>
    /\ rows' = ListAppend(rows, row')
    /\ Goto("ext_comments")
    /\ UNCHANGED <<inputs, disk, repos, idx, tbl, k, logs>>

\* Line 117: the comments of the issue are over.
ExtractCommentsDone ==
    /\ pc = "ext_comments"
    /\ j = Len(Cur.issues[k].comments)
    /\ Goto("ext_issues")
    /\ UNCHANGED <<inputs, disk, locals, logs>>

\* Line 124.
ExtractReturn ==
    /\ pc = "ext_issues"
    /\ k = Len(Cur.issues)
    /\ LET df == DataFrame(rows, EventColumns)
       IN IF df.ok THEN tbl' = df.val /\ Goto("ext_write")
          ELSE tbl' = tbl /\ Crash(df.exc)
    /\ UNCHANGED <<inputs, disk, repos, idx, row, rows, k, j, logs>>

\* Lines 200 and 213: the events of the repository are written.
WriteEventCsv ==
    /\ pc = "ext_write"
    /\ IF RepoMode THEN ToCsv("repo.csv", "done")
       ELSE ToCsv(CsvOf(Cur.name), "all_loop")
    /\ UNCHANGED <<inputs, dirs, locals, logs>>

\* ------------------------------------------------------------------------
\* main, lines 207-213: --all.

\* Lines 208-211: the next repository; it is skipped when its file exists.
AllNextRepo ==
    /\ pc = "all_loop"
    /\ idx < Len(repos)
    /\ idx' = idx + 1
    /\ LET f == PathIsFile(fs, CsvOf(repos[idx'].name))
       IN IF ~f.ok THEN Crash(f.exc)
          ELSE IF f.val THEN Goto("all_loop")
          ELSE Goto("ext_begin")
    /\ UNCHANGED <<inputs, disk, repos, row, rows, tbl, k, j, logs>>

\* Line 208: the loop is over.
AllDone ==
    /\ pc = "all_loop"
    /\ idx = Len(repos)
    /\ Goto("done")
    /\ UNCHANGED <<inputs, disk, locals, logs>>

Next ==
    \/ MakeOutFolder
    \/ GetRepo
    \/ EnumerateOrg
    \/ TableBegin
    \/ TableNextRepo
    \/ TableAttrs
    \/ TableLicense
    \/ TableReadme
    \/ TableIssuesCount
    \/ TablePulls
    \/ TableCommitCount
    \/ TableContributors
    \/ TableLastIssue
    \/ TableLastCommit
    \/ TableReturn
    \/ WriteReposCsv
    \/ ExtractBegin
    \/ ExtractCommit
    \/ ExtractCommitsDone
    \/ ExtractIssue
    \/ ExtractComment
    \/ ExtractCommentsDone
    \/ ExtractReturn
    \/ WriteEventCsv
    \/ AllNextRepo
    \/ AllDone

Spec == Init /\ [][Next]_vars

\* ------------------------------------------------------------------------
\* get_all_contributors is called by nothing in the module: it is checked
\* as a function of its arguments.
InitContributors ==
    /\ args = DefaultArgs
    /\ org = <<>>
    /\ target = R1
    /\ dirs = {"./"}
    /\ fs = {}
    /\ pc = "idle"
    /\ call \in [state : {"called"}, repo : ContribRepos, inc_non_code : BOOLEAN,
                  ret : {<<>>}]
    /\ InitLocals

CallGetAllContributors ==
    /\ call.state = "called"
    /\ call' = [call EXCEPT !.state = "returned",
                            !.ret = get_all_contributors(call.repo, call.inc_non_code)]
    /\ UNCHANGED <<args, org, target, disk0, disk, pc, err, locals, logs>>

NextContributors == CallGetAllContributors

SpecContributors == InitContributors /\ [][NextContributors]_vars

\* ------------------------------------------------------------------------
\* Properties.

TableMode == ~RepoMode /\ ~Truthy(args.all) /\ call.state = "none"
Terminated == pc \in {"done", "crashed"}

MaxOf(S) == CHOOSE m \in S : \A x \in S : x <= m
DayOf(lm) == IF lm[1] = "rfc1123" THEN lm[2] ELSE 0

\* The metrics of a repository, read off its handle.
ExpectedRow(r) ==
    <<StrCell(r.name), StrCell(r.description), StrCell(r.url),
      BoolCell(r.contents["LICENSE"] = "ok"),
      BoolCell(r.contents["README.md"] = "ok"),
      IntCell(r.open_issues_count), IntCell(Len(r.pulls)),
      IntCell(Len(r.commits)), ListCell(r.contributors),
      IF r.issues = <<>> THEN StrCell(NA)
      ELSE IntCell(Today - MaxOf({r.issues[i].updated_at : i \in DOMAIN r.issues})),
      IntCell(Today - DayOf(r.commits[1].last_modified))>>

\* A read of the collection of r other than the maximum over no issues fails.
CollectionFails(r) ==
    \/ r.fail # "none"
    \/ r.commits = <<>>
    \/ r.commits[1].last_modified[1] # "rfc1123"

\* C1: the table repo_info_to_table returns has one row per repository of
\* its input, row i being the metrics of repos[i]; while it runs, the rows
\* collected so far are those of the first repositories, in input order.
TableRowsFollowInput ==
    TableMode =>
        /\ Len(rows) <= Len(repos)
        /\ \A i \in DOMAIN rows : rows[i] = ExpectedRow(repos[i])
        /\ tbl.made =>
            /\ Len(tbl.rows) = Len(repos)
            /\ \A i \in DOMAIN repos : tbl.rows[i] = ExpectedRow(repos[i])

WitnessTwoRowTable ==
    /\ TableMode
    /\ pc = "done"
    /\ tbl.made
    /\ Len(repos) >= 2
    /\ repos[1].name # repos[2].name
    /\ Len(tbl.rows) = Len(repos)
    /\ "repos.csv" \in fs

\* C2: when the collection of some repository of the list fails with
\* anything but the maximum over no issues, no table is returned, rows holds
\* complete rows only, repos.csv is not written and main ends with that
\* exception.
AllOrNothingBatch ==
    (TableMode /\ \E i \in DOMAIN repos : CollectionFails(repos[i])) =>
        /\ ~tbl.made
        /\ "repos.csv" \notin fs
        /\ pc \notin {"tbl_write", "done"}
        /\ \A i \in DOMAIN rows : Len(rows[i]) = Len(TableColumns)
        /\ pc = "crashed" =>
            /\ err \in {"GithubException", "IndexError", "TypeError"}
            /\ CollectionFails(Cur)
            /\ Len(rows) = idx - 1

WitnessSecondRepoFails ==
    /\ TableMode
    /\ pc = "crashed"
    /\ idx = 2
    /\ ~CollectionFails(repos[1])
    /\ CollectionFails(repos[2])
    /\ Len(rows) = 1
    /\ ~tbl.made
    /\ fs = {}

\* C3: for a repository without issues the tenth cell of the row is "N/A",
\* appended once; the empty maximum does not end the row, which ends early
\* only when another read fails, and every other cell of a finished row holds
\* its metric.
EmptyIssuesRecordNA ==
    (TableMode /\ idx >= 1) =>
        /\ \A i \in DOMAIN rows :
              repos[i].issues = <<>> =>
                /\ Len(rows[i]) = Len(TableColumns)
                /\ rows[i][10] = StrCell(NA)
                /\ \A c \in DOMAIN rows[i] :
                      c # 10 => /\ rows[i][c] = ExpectedRow(repos[i])[c]
                                /\ rows[i][c].t # "none"
        /\ (Cur.issues = <<>> /\ Cur.fail # "get_issues") =>
              /\ pc = "tbl_last_commit" => Len(row) = 10 /\ row[10] = StrCell(NA)
              /\ pc = "crashed" => err # "ValueError" /\ CollectionFails(Cur)

WitnessRowWithoutIssues ==
    /\ TableMode
    /\ pc = "done"
    /\ \E i \in DOMAIN repos :
          /\ repos[i].issues = <<>>
          /\ tbl.rows[i][10] = StrCell(NA)
          /\ tbl.rows[i][11].t = "int"
          /\ tbl.rows[i][1] = StrCell(repos[i].name)

\* C4: has_file answers whether its one fetch succeeded: the license and
\* readme cells are true exactly when the fetch of LICENSE and of README.md
\* succeeded, no failure of a fetch ends the row, and each file is fetched
\* once per repository.
HasFileFoldsFailures ==
    (TableMode /\ idx >= 1) =>
        /\ pc = "crashed" => Len(row) >= 5
        /\ Len(row) >= 4 => row[4] = BoolCell(Cur.contents["LICENSE"] = "ok")
        /\ Len(row) >= 5 => row[5] = BoolCell(Cur.contents["README.md"] = "ok")
        /\ Len(fetchLog) = 2 * (idx - 1) +
              (IF Len(row) >= 5 THEN 2 ELSE IF Len(row) = 4 THEN 1 ELSE 0)
        /\ \A n \in DOMAIN fetchLog :
              fetchLog[n] = <<(n + 1) \div 2,
                              IF n % 2 = 1 THEN "LICENSE" ELSE "README.md">>
        /\ \A i \in DOMAIN rows :
              /\ rows[i][4] = BoolCell(repos[i].contents["LICENSE"] = "ok")
              /\ rows[i][5] = BoolCell(repos[i].contents["README.md"] = "ok")

WitnessFailedFetchesReadAbsent ==
    /\ TableMode
    /\ pc = "done"
    /\ \E i \in DOMAIN repos :
          /\ repos[i].contents["LICENSE"] = "500"
          /\ repos[i].contents["README.md"] = "403"
          /\ tbl.rows[i][4] = BoolCell(FALSE)
          /\ tbl.rows[i][5] = BoolCell(FALSE)
          /\ Len(fetchLog) = 2 * Len(repos)

\* The rows of one kind.
KindRows(rs, kind) == SelectSeq(rs, LAMBDA r : Len(r) >= 3 /\ r[3] = StrCell(kind))
Resolvable(commit) == commit.author # None
CommentsOf(r) ==
    UNION {{<<i, c>> : c \in DOMAIN r.issues[i].comments} : i \in DOMAIN r.issues}

\* C5: a commit whose author is None adds no record and does not end the
\* extraction: the frame holds one commit record per commit with an author,
\* one issue record per issue and one comment record per comment, every
\* record has three cells, and the extraction ends early only on a failed
\* enumeration or an unreadable timestamp.
SkipOnUnresolvedAuthor ==
    (RepoMode /\ idx = 1) =>
        /\ \A i \in DOMAIN rows : Len(rows[i]) = 3
        /\ pc = "ext_commits" =>
              Len(rows) = Cardinality({n \in 1..k : Resolvable(target.commits[n])})
        /\ tbl.made =>
              /\ Len(KindRows(tbl.rows, "commit")) =
                    Cardinality({n \in DOMAIN target.commits :
                                    Resolvable(target.commits[n])})
              /\ Len(KindRows(tbl.rows, "issue")) = Len(target.issues)
              /\ Len(KindRows(tbl.rows, "comment")) = Cardinality(CommentsOf(target))
              /\ Len(tbl.rows) = Len(rows)
        /\ pc = "crashed" =>
              /\ err # "AttributeError"
              /\ \/ target.fail \in {"get_commits", "get_issues"}
                 \/ \E n \in DOMAIN target.commits :
                       /\ Resolvable(target.commits[n])
                       /\ target.commits[n].last_modified = NoStamp

WitnessAllAuthorsUnresolved ==
    /\ RepoMode
    /\ pc = "done"
    /\ tbl.made
    /\ Len(target.commits) >= 2
    /\ \A n \in DOMAIN target.commits : ~Resolvable(target.commits[n])
    /\ Len(target.issues) >= 1
    /\ CommentsOf(target) # {}
    /\ KindRows(tbl.rows, "commit") = <<>>
    /\ Len(tbl.rows) = Len(target.issues) + Cardinality(CommentsOf(target))
    /\ "repo.csv" \in fs

\* The events of a repository in the platform's enumeration order.
CommitEvents(r) ==
    LET cs == SelectSeq(r.commits, Resolvable)
    IN [n \in DOMAIN cs |->
          <<StrCell(cs[n].author), IntCell(DayOf(cs[n].last_modified)),
            StrCell("commit")>>]
RECURSIVE IssueEvents(_)
IssueEvents(issues) ==
    IF issues = <<>> THEN <<>>
    ELSE <<<<StrCell(issues[1].user), IntCell(issues[1].created_at),
             StrCell("issue")>>>>
         \o [c \in DOMAIN issues[1].comments |->
               <<StrCell(issues[1].comments[c].user),
                 IntCell(issues[1].comments[c].created_at), StrCell("comment")>>]
         \o IssueEvents(Tail(issues))
ExpectedEvents(r) == CommitEvents(r) \o IssueEvents(r.issues)
IsPrefix(s, t) == Len(s) <= Len(t) /\ \A n \in DOMAIN s : s[n] = t[n]

CodeLogins(r) == Range(r.contributors)
IssueLogins(r) == {r.issues[i].user : i \in DOMAIN r.issues}
CommentLogins(r) ==
    {r.issues[p[1]].comments[p[2]].user : p \in CommentsOf(r)}
Channels(r, u) ==
    (IF u \in CodeLogins(r) THEN {"code"} ELSE {})
    \cup (IF u \in IssueLogins(r) THEN {"issues"} ELSE {})
    \cup (IF u \in CommentLogins(r) THEN {"comments"} ELSE {})

\* C7: without inc_non_code the mapping's keys are the code contributors,
\* each tagged <<"code">>; with it the keys are the code contributors, the
\* issue authors and the comment authors, and each user's tags are the
\* channels the user was seen in, none repeated.
ContributorChannels ==
    call.state = "returned" =>
        LET r == call.repo
            m == call.ret
        IN IF ~call.inc_non_code
           THEN /\ DOMAIN m = CodeLogins(r)
                /\ \A u \in DOMAIN m : m[u] = <<"code">>
           ELSE /\ DOMAIN m = CodeLogins(r) \cup IssueLogins(r) \cup CommentLogins(r)
                /\ \A u \in DOMAIN m :
                      /\ Range(m[u]) = Channels(r, u)
                      /\ Len(m[u]) = Cardinality(Channels(r, u))

WitnessIssueAndCommentOnly ==
    /\ call.state = "returned"
    /\ call.inc_non_code
    /\ \E u \in DOMAIN call.ret :
          /\ u \notin CodeLogins(call.repo)
          /\ call.ret[u] = <<"issues", "comments">>
          /\ Cardinality({i \in DOMAIN call.repo.issues :
                             call.repo.issues[i].user = u}) >= 2
    /\ \E u \in DOMAIN call.ret : call.ret[u][1] = "code" /\ Len(call.ret[u]) >= 2

\* C8: a run with --all and without --repo ends having run the extractor on,
\* and written <name>.csv for, exactly the enumerated repositories whose
\* <name>.csv did not exist when it started.
AllModeResumes ==
    (Terminated /\ ~RepoMode /\ Truthy(args.all) /\ args.out_folder = "./") =>
        LET todo == {n \in {repos[i].name : i \in DOMAIN repos} :
                        CsvOf(n) \notin disk0[2]}
        IN /\ Range(extracted) = todo
           /\ fs = disk0[2] \cup {CsvOf(n) : n \in todo}

\* C9: a run whose --out_folder is not the default and does not exist ends
\* with the directory made, having gone on past making it.
OutFolderMade ==
    (Terminated /\ args.out_folder # "./" /\ args.out_folder \notin disk0[1]) =>
        /\ args.out_folder \in dirs
        /\ apiLog # <<>>

\* C10: once the repositories are resolved, without --private main's list
\* is the organisation's public repositories, with --private it is the public
\* and the private ones, and with --repo it is the one repository named and
\* the organisation is not enumerated.
EnumerationFollowsPrivateFlag ==
    (apiLog # <<>> /\ args.private \in {DefaultFalse, "True"}) =>
        IF RepoMode
        THEN repos = <<target>> /\ apiLog = <<<<"get_repo", args.repo>>>>
        ELSE IF args.private = DefaultFalse
             THEN repos = SelectSeq(org, LAMBDA r : ~r.private)
             ELSE repos = org

====
